---------------------------- MODULE Spec2Model ----------------------------
(***************************************************************************)
(* Model of the rule-evaluation and automation-execution core of the      *)
(* lead-generation backend (apps/backend/app/services):                   *)
(*   - the scheduled task queue  (AutomationService.process_due_tasks),   *)
(*   - the automation pipeline   (AutomationService.trigger_automation),  *)
(*   - segment evaluation        (SegmentationService.evaluate_segment),  *)
(*   - segment memberships       (add_leads_to_segment,                   *)
(*                                remove_leads_from_segment,              *)
(*                                update_segment_memberships).            *)
(* Each subsystem has its own specification (SpecTasks, SpecAuto,         *)
(* SpecSeg, SpecMem and, for concurrent recomputations, SpecMemConc)      *)
(* over the shared variables; the variables of the other subsystems stay  *)
(* at their initial value.                                                *)
(***************************************************************************)
EXTENDS Integers, Sequences, FiniteSets, TLC

VARIABLES
    \* ---- scheduled task queue ----
    tasks,            \* scheduled_tasks table: id -> committed row
    now,              \* wall clock, in minutes
    pc,               \* per processor instance: "idle" | "run"
    due_tasks,        \* per processor: the ORM objects its SELECT loaded (a sequence of rows)
    idx,              \* per processor: position of the for-loop in due_tasks
    call_now,         \* per processor: the local `now` of the running call
    processed_count,  \* per processor: the local counter the call returns
    attempts,         \* history: id -> number of times a call processed the task
    failures,         \* history: id -> number of those attempts that raised
    term_at_start,    \* history: per processor, the tasks that were terminal when its call started
    \* ---- automation pipeline ----
    automations,      \* automations table with the loaded actions: id -> row
    leads,            \* leads table: id -> committed row
    automation_runs,  \* automation_runs table: sequence of committed rows, id = position
    tr,               \* the locals of the running trigger_automation call
    result,           \* what the last trigger_automation call gave its caller
    run_changes,      \* history: per run, the number of times its committed status changed
    \* ---- segmentation ----
    segments,         \* segments table with the loaded rules: id -> row
    evaluation,       \* what the last evaluate_segment call returned, with its arguments
    \* ---- segment memberships ----
    memberships,      \* lead_segments table: sequence of committed rows, id = position
    mc,               \* per caller: the locals and the session of its running membership call
    last_call,        \* history: the membership call that ended last, with its outcome
    memberships0,     \* history: the lead_segments table of the initial state
    store_failed      \* history: some statement or commit of a membership call has raised

taskVars == <<tasks, now, pc, due_tasks, idx, call_now, processed_count,
              attempts, failures, term_at_start>>

autoVars == <<automations, leads, automation_runs, tr, result, run_changes>>

\* The leads table is shared by the automation pipeline and the segmentation.
segVars == <<segments, evaluation>>

memVars == <<memberships, mc, last_call, memberships0, store_failed>>

vars == <<taskVars, autoVars, segVars, memVars>>

\* What the operations of one subsystem leave alone.
notTaskVars == <<autoVars, segVars, memVars>>
notAutoVars == <<taskVars, segVars, memVars>>
notSegVars == <<taskVars, automations, automation_runs, tr, result, run_changes, memVars>>
notMemVars == <<taskVars, autoVars, segVars>>

(***************************************************************************)
(* Bounds of the model.                                                    *)
(***************************************************************************)
MaxTime == 10
MaxRetriesBound == 2

TaskIds == {1, 2}
\* the processor instances that may call process_due_tasks concurrently
Procs == {"p1", "p2"}
Priorities == {0, 1}

(***************************************************************************)
(* Program constants.                                                      *)
(***************************************************************************)
\* .limit(100) of the due-task query
QueryLimit == 100
\* timedelta(minutes=5): the fixed retry backoff
RetryBackoff == 5

TerminalStatuses == {"completed", "failed"}

Min(a, b) == IF a <= b THEN a ELSE b

(***************************************************************************)
(* Scheduled task queue                                                    *)
(***************************************************************************)

\* The WHERE clause of the due-task query, with the status filter left out.
IsDue_NoStatusFilter(row, n) == row.scheduled_for <= n

\* The WHERE clause of the due-task query.
IsDue(row, n) == row.scheduled_for <= n /\ row.status = "pending"

\* ORDER BY priority DESC: the orders the database may return the ids in
\* (rows of equal priority come in any order).
OrderedByPriorityDesc(ids) ==
    { s \in [1..Cardinality(ids) -> ids] :
        /\ \A i, j \in DOMAIN s : i # j => s[i] # s[j]
        /\ \A i, j \in DOMAIN s : i < j => tasks[s[i]].priority >= tasks[s[j]].priority }

\* The ORM object loaded for task id: its id and the loaded column values.
LoadedTask(id) == [id |-> id, row |-> tasks[id]]

\* The result sets the due-task query may return at time n.
DueTaskQuery(n) ==
    { [i \in 1..Min(Len(s), QueryLimit) |-> LoadedTask(s[i])] :
        s \in OrderedByPriorityDesc({id \in TaskIds : IsDue(tasks[id], n)}) }

\* The try body: the task ran without raising.
TaskSucceeded(row) == [row EXCEPT !.status = "completed", !.retry_count = 0]

\* The except body with the retry left at its old scheduled_for.
TaskRaised_NoBackoff(row, n) ==
    LET rc == row.retry_count + 1 IN
    IF rc >= row.max_retries
    THEN [row EXCEPT !.retry_count = rc, !.status = "failed"]
    ELSE [row EXCEPT !.retry_count = rc, !.status = "retry_scheduled"]

\* The except body: the task raised.
TaskRaised(row, n) ==
    LET rc == row.retry_count + 1 IN
    IF rc >= row.max_retries
    THEN [row EXCEPT !.retry_count = rc, !.status = "failed"]
    ELSE [row EXCEPT !.retry_count = rc, !.scheduled_for = n + RetryBackoff,
                     !.status = "retry_scheduled"]

\* db.commit(): the UPDATE sets the columns the session changed since it
\* loaded the row; the other columns keep their committed value.
CommitTask(committed, loaded, changed) ==
    [f \in DOMAIN committed |->
        IF changed[f] # loaded[f] THEN changed[f] ELSE committed[f]]

\* process_due_tasks, lines 711-722: read the clock, run the query.
ProcessDueTasks_Select(p) ==
    /\ pc[p] = "idle"
    /\ \E q \in DueTaskQuery(now) :
         due_tasks' = [due_tasks EXCEPT ![p] = q]
    /\ pc' = [pc EXCEPT ![p] = "run"]
    /\ idx' = [idx EXCEPT ![p] = 1]
    /\ call_now' = [call_now EXCEPT ![p] = now]
    /\ processed_count' = [processed_count EXCEPT ![p] = 0]
    /\ term_at_start' = [term_at_start EXCEPT ![p] =
                           {id \in TaskIds : tasks[id].status \in TerminalStatuses}]
    /\ UNCHANGED <<tasks, now, attempts, failures>>
    /\ UNCHANGED notTaskVars

\* process_due_tasks, lines 724-744: one iteration of the loop, with its commit.
\* ok is the outcome of the task's processing logic (lines 726-727).
ProcessDueTasks_Task(p) ==
    /\ pc[p] = "run"
    /\ idx[p] <= Len(due_tasks[p])
    /\ \E ok \in BOOLEAN :
         LET obj == due_tasks[p][idx[p]]
             changed == IF ok THEN TaskSucceeded(obj.row)
                              ELSE TaskRaised(obj.row, call_now[p])
         IN /\ tasks' = [tasks EXCEPT ![obj.id] = CommitTask(@, obj.row, changed)]
            /\ processed_count' = [processed_count EXCEPT ![p] = IF ok THEN @ + 1 ELSE @]
            /\ attempts' = [attempts EXCEPT ![obj.id] = @ + 1]
            /\ failures' = [failures EXCEPT ![obj.id] = IF ok THEN @ ELSE @ + 1]
    /\ idx' = [idx EXCEPT ![p] = @ + 1]
    /\ UNCHANGED <<now, pc, due_tasks, call_now, term_at_start>>
    /\ UNCHANGED notTaskVars

\* process_due_tasks, line 746: the loop is over, the call returns.
ProcessDueTasks_Return(p) ==
    /\ pc[p] = "run"
    /\ idx[p] > Len(due_tasks[p])
    /\ pc' = [pc EXCEPT ![p] = "idle"]
    /\ due_tasks' = [due_tasks EXCEPT ![p] = <<>>]
    /\ idx' = [idx EXCEPT ![p] = 1]
    /\ call_now' = [call_now EXCEPT ![p] = 0]
    /\ processed_count' = [processed_count EXCEPT ![p] = 0]
    /\ term_at_start' = [term_at_start EXCEPT ![p] = {}]
    /\ UNCHANGED <<tasks, now, attempts, failures>>
    /\ UNCHANGED notTaskVars

\* Time passes; the clock is observed one backoff window at a time.
Tick ==
    /\ now + RetryBackoff <= MaxTime
    /\ now' = now + RetryBackoff
    /\ UNCHANGED <<tasks, pc, due_tasks, idx, call_now, processed_count,
                   attempts, failures, term_at_start>>
    /\ UNCHANGED notTaskVars

\* A task as create_scheduled_task stores it from a request that keeps the
\* schema's defaults for status and retry_count.
NewTaskRows ==
    [status : {"pending"}, retry_count : {0}, max_retries : 0..MaxRetriesBound,
     scheduled_for : {0, RetryBackoff}, priority : Priorities]

\* No row of scheduled_tasks has this id yet.
NoTask ==
    [status |-> "none", retry_count |-> 0, max_retries |-> 0,
     scheduled_for |-> 0, priority |-> 0]

\* ScheduledTaskCreate: the fields a request may carry. status is any string,
\* retry_count and max_retries are any integers >= 0 (schemas, lines 157-168).
ScheduledTaskCreateRequests ==
    [status : {"pending", "completed"}, retry_count : {0, 1},
     max_retries : 0..MaxRetriesBound, scheduled_for : {0, RetryBackoff},
     priority : Priorities]

\* create_scheduled_task, lines 636-653: the row is built from the request's
\* fields, added and committed.
CreateScheduledTask(id, task_data) ==
    /\ tasks[id] = NoTask
    /\ tasks' = [tasks EXCEPT ![id] =
                   [status |-> task_data.status,
                    retry_count |-> task_data.retry_count,
                    max_retries |-> task_data.max_retries,
                    scheduled_for |-> task_data.scheduled_for,
                    priority |-> task_data.priority]]
    /\ UNCHANGED <<now, pc, due_tasks, idx, call_now, processed_count,
                   attempts, failures, term_at_start>>
    /\ UNCHANGED notTaskVars


(***************************************************************************)
(* Python strings                                                          *)
(***************************************************************************)
\* Rule.value and the text columns are Python strings: sequences of characters.
S_new == <<"n", "e", "w">>
S_lost == <<"l", "o", "s", "t">>
S_medium == <<"m", "e", "d", "i", "u", "m">>
S_qualified ==
    <<"q", "u", "a", "l", "i", "f", "i", "e", "d">>
S_CA == <<"C", "A">>
S_NY == <<"N", "Y">>
S_vip == <<"v", "i", "p">>
S_100 == <<"1", "0", "0">>
S_abc == <<"a", "b", "c">>
S_high == <<"h", "i", "g", "h">>
S_a_b == <<"a", ",", "b">>
S_new_lost == <<"n", "e", "w", ",", " ", "l", "o", "s", "t">>

Digits == <<"0", "1", "2", "3", "4", "5", "6", "7", "8", "9">>
IsDigit(c) == \E d \in DOMAIN Digits : Digits[d] = c
DigitValue(c) == (CHOOSE d \in DOMAIN Digits : Digits[d] = c) - 1

\* str.split(sep): the pieces between the separators, at least one piece.
Split(str, sep) ==
    LET F[i \in 0..Len(str)] ==
            IF i = 0 THEN << <<>> >>
            ELSE IF str[i] = sep THEN Append(F[i - 1], <<>>)
                 ELSE [F[i - 1] EXCEPT ![Len(F[i - 1])] = Append(@, str[i])]
    IN F[Len(str)]

\* str.strip(): without the leading and trailing blanks.
Strip(str) ==
    LET keep == {i \in DOMAIN str : str[i] # " "} IN
    IF keep = {} THEN <<>>
    ELSE LET lo == CHOOSE i \in keep : \A j \in keep : i <= j
             hi == CHOOSE i \in keep : \A j \in keep : i >= j
         IN SubSeq(str, lo, hi)

\* float(value) / int(value) on the decimal strings of this model: the
\* number, or the ValueError.
ParseNumber(str) ==
    LET t == Strip(str)
        F[i \in 0..Len(t)] == IF i = 0 THEN 0 ELSE 10 * F[i - 1] + DigitValue(t[i])
    IN IF Len(t) > 0 /\ \A i \in DOMAIN t : IsDigit(t[i])
       THEN [ok |-> TRUE, v |-> F[Len(t)]]
       ELSE [ok |-> FALSE, v |-> 0]

\* column.contains(v), .startswith(v), .endswith(v): LIKE on plain characters.
StrContains(str, sub) ==
    \E i \in 0..(Len(str) - Len(sub)) : SubSeq(str, i + 1, i + Len(sub)) = sub
StrStartsWith(str, sub) ==
    Len(sub) <= Len(str) /\ SubSeq(str, 1, Len(sub)) = sub
StrEndsWith(str, sub) ==
    Len(sub) <= Len(str) /\ SubSeq(str, Len(str) - Len(sub) + 1, Len(str)) = sub

\* sep.join(parts)
Join(parts, sep) ==
    LET F[i \in 0..Len(parts)] ==
            IF i = 0 THEN <<>>
            ELSE IF i = 1 THEN parts[1]
            ELSE F[i - 1] \o sep \o parts[i]
    IN F[Len(parts)]

(***************************************************************************)
(* Automation pipeline                                                     *)
(***************************************************************************)
MaxActions == 3
MaxRuns == 1

AutomationIds == {1}
LeadIds == {1}
EmailTemplateIds == {1}

\* Python dicts keyed by strings.
EmptyDict == [k \in {} |-> 0]
DictSet(d, k, v) == [x \in (DOMAIN d) \cup {k} |-> IF x = k THEN v ELSE d[x]]

\* An action's configuration; a key the dict lacks reads as None, here the
\* falsy value of the key's type ("" or 0), which the handlers' `if not x`
\* tests treat alike.
NoConfig ==
    [template_id |-> 0, status |-> <<>>, priority |-> <<>>, agent_id |-> 0, tag |-> <<>>]

ActionFailed(msg) == [success |-> FALSE, error |-> msg]
ActionDone(action_type) == [success |-> TRUE, action |-> action_type]

\* What a handler gives back: its result dict and the leads table after it.
Outcome(res, L) == [result |-> res, leads |-> L]

\* [t.strip() for t in current_tags.split(",") if t.strip()]
TagsList(lead) ==
    LET parts == Split(lead.tags, ",")
        F[i \in 0..Len(parts)] ==
            IF i = 0 THEN <<>>
            ELSE IF Strip(parts[i]) = <<>> THEN F[i - 1]
            ELSE Append(F[i - 1], Strip(parts[i]))
    IN F[Len(parts)]

\* ", ".join(tags_list)
TagsColumn(tags_list) == Join(tags_list, <<",", " ">>)

SeqContains(s, x) == \E i \in DOMAIN s : s[i] = x
SeqRemoveFirst(s, x) ==
    LET i == CHOOSE i \in DOMAIN s : s[i] = x /\ \A j \in 1..(i - 1) : s[j] # x
    IN [j \in 1..(Len(s) - 1) |-> IF j < i THEN s[j] ELSE s[j + 1]]

\* _execute_send_email_action
ExecuteSendEmail(config, lead_id, L) ==
    IF config.template_id = 0 THEN Outcome(ActionFailed("No email template specified"), L)
    ELSE IF config.template_id \notin EmailTemplateIds
         THEN Outcome(ActionFailed("Email template not found"), L)
         ELSE Outcome(ActionDone("send_email"), L)

\* The read-modify-write of one lead column shared by the update_lead_status,
\* update_lead_priority and assign_lead handlers; commit_ok tells whether the
\* handler's db.commit() went through (when it raises, the dispatcher's except
\* clause turns the exception into a failed result).
UpdateLeadColumn_UnsetWritten(action_type, lead_id, value, unset, missing, column, L, commit_ok) ==
    IF lead_id = 0 THEN Outcome(ActionFailed("No lead specified"), L)
    ELSE IF lead_id \notin DOMAIN L THEN Outcome(ActionFailed("Lead not found"), L)
    ELSE IF ~commit_ok THEN Outcome(ActionFailed("commit raised"), L)
    ELSE Outcome(ActionDone(action_type), [L EXCEPT ![lead_id][column] = value])

UpdateLeadColumn(action_type, lead_id, value, unset, missing, column, L, commit_ok) ==
    IF lead_id = 0 THEN Outcome(ActionFailed("No lead specified"), L)
    ELSE IF unset THEN Outcome(ActionFailed(missing), L)
    ELSE IF lead_id \notin DOMAIN L THEN Outcome(ActionFailed("Lead not found"), L)
    ELSE IF ~commit_ok THEN Outcome(ActionFailed("commit raised"), L)
    ELSE Outcome(ActionDone(action_type), [L EXCEPT ![lead_id][column] = value])

\* _execute_add_tag_action
ExecuteAddTag(config, lead_id, L, commit_ok) ==
    IF lead_id = 0 THEN Outcome(ActionFailed("No lead specified"), L)
    ELSE IF config.tag = <<>> THEN Outcome(ActionFailed("No tag specified"), L)
    ELSE IF lead_id \notin DOMAIN L THEN Outcome(ActionFailed("Lead not found"), L)
    ELSE IF SeqContains(TagsList(L[lead_id]), config.tag)
         THEN Outcome(ActionDone("add_tag"), L)
    ELSE IF ~commit_ok THEN Outcome(ActionFailed("commit raised"), L)
    ELSE Outcome(ActionDone("add_tag"),
                 [L EXCEPT ![lead_id].tags =
                        TagsColumn(Append(TagsList(L[lead_id]), config.tag))])

\* _execute_remove_tag_action
ExecuteRemoveTag(config, lead_id, L, commit_ok) ==
    IF lead_id = 0 THEN Outcome(ActionFailed("No lead specified"), L)
    ELSE IF config.tag = <<>> THEN Outcome(ActionFailed("No tag specified"), L)
    ELSE IF lead_id \notin DOMAIN L THEN Outcome(ActionFailed("Lead not found"), L)
    ELSE IF ~SeqContains(TagsList(L[lead_id]), config.tag)
         THEN Outcome(ActionDone("remove_tag"), L)
    ELSE IF ~commit_ok THEN Outcome(ActionFailed("commit raised"), L)
    ELSE Outcome(ActionDone("remove_tag"),
                 [L EXCEPT ![lead_id].tags =
                        TagsColumn(SeqRemoveFirst(TagsList(L[lead_id]), config.tag))])

\* The eight action types the dispatcher knows (lines 229-251).
KnownActionTypes ==
    {"send_email", "update_lead_status", "update_lead_priority", "assign_lead",
     "add_tag", "remove_tag", "create_task", "send_notification"}

\* The dispatcher's else branch with a successful result in place of the error.
UnknownActionType_Done(action_type, L) == Outcome(ActionDone(action_type), L)

\* _execute_automation_action, lines 253-254: the else branch of the dispatch.
UnknownActionType(action_type, L) == Outcome(ActionFailed("Unknown action type"), L)

\* _execute_automation_action: the dispatch on action_type.
ExecuteAutomationAction(action, lead_id, L, commit_ok) ==
    LET t == action.action_type
        config == action.configuration
    IN CASE t = "send_email" -> ExecuteSendEmail(config, lead_id, L)
         [] t = "update_lead_status" ->
                UpdateLeadColumn(t, lead_id, config.status, config.status = <<>>,
                                 "No status specified", "status", L, commit_ok)
         [] t = "update_lead_priority" ->
                UpdateLeadColumn(t, lead_id, config.priority, config.priority = <<>>,
                                 "No priority specified", "priority", L, commit_ok)
         [] t = "assign_lead" ->
                UpdateLeadColumn(t, lead_id, config.agent_id, config.agent_id = 0,
                                 "No agent specified", "assignee_id", L, commit_ok)
         [] t = "add_tag" -> ExecuteAddTag(config, lead_id, L, commit_ok)
         [] t = "remove_tag" -> ExecuteRemoveTag(config, lead_id, L, commit_ok)
         [] t = "create_task" -> Outcome(ActionDone(t), L)
         [] t = "send_notification" -> Outcome(ActionDone(t), L)
         [] OTHER -> UnknownActionType(t, L)

\* trigger_automation, line 150, with the is_active test left out.
AutomationTriggerable_ActiveUnchecked(automation_id) ==
    automation_id \in DOMAIN automations

\* trigger_automation, line 150: the automation exists and is active.
AutomationTriggerable(automation_id) ==
    automation_id \in DOMAIN automations /\ automations[automation_id].is_active

\* The locals of a call before it starts; outcomes is history: the result of
\* each executed action, in execution order.
TrIdle == [pc |-> "idle", automation_id |-> 0, lead_id |-> 0, run_id |-> 0, i |-> 1,
           triggered_actions |-> <<>>, execution_log |-> EmptyDict, outcomes |-> <<>>]

\* What a call gave its caller: the returned dict (with, as history, the
\* outcomes of the executed actions), or the fact that it raised.
Returned(success, run_id, triggered, outcomes) ==
    [kind |-> "returned", success |-> success, automation_run_id |-> run_id,
     triggered_actions |-> triggered, outcomes |-> outcomes]
NotTriggered == Returned(FALSE, 0, <<>>, <<>>)
Raised == [kind |-> "raised"]
NoResult == [kind |-> "none"]

\* trigger_automation, lines 149-170: look the automation up, return early when
\* it is missing or inactive, else store the Run in "processing".  commit_ok
\* tells whether the commit of line 165 went through; when it raises, the
\* exception leaves the call and no Run is stored.
TriggerAutomation_Begin(automation_id, lead_id) ==
    /\ tr.pc = "idle"
    /\ IF ~AutomationTriggerable(automation_id)
       THEN /\ result' = NotTriggered
            /\ UNCHANGED <<automations, leads, automation_runs, tr, run_changes>>
       ELSE /\ Len(automation_runs) < MaxRuns
            /\ \E commit_ok \in BOOLEAN :
                 IF commit_ok
                 THEN /\ automation_runs' = Append(automation_runs,
                             [automation_id |-> automation_id, lead_id |-> lead_id,
                              status |-> "processing", execution_log |-> EmptyDict,
                              completed_at |-> "None"])
                      /\ run_changes' = Append(run_changes, 0)
                      /\ tr' = [TrIdle EXCEPT !.pc = "loop", !.automation_id = automation_id,
                                              !.lead_id = lead_id,
                                              !.run_id = Len(automation_runs) + 1]
                      /\ result' = NoResult
                      /\ UNCHANGED <<automations, leads>>
                 ELSE /\ result' = Raised
                      /\ UNCHANGED <<automations, leads, automation_runs, tr, run_changes>>
    /\ UNCHANGED notAutoVars

\* trigger_automation, lines 173-184: one iteration of the loop over the actions.
TriggerAutomation_Action ==
    /\ tr.pc = "loop"
    /\ tr.i <= Len(automations[tr.automation_id].actions)
    /\ LET action == automations[tr.automation_id].actions[tr.i] IN
       IF ~action.is_active
       THEN /\ tr' = [tr EXCEPT !.i = @ + 1]
            /\ UNCHANGED leads
       ELSE \E commit_ok \in BOOLEAN :
              LET out == ExecuteAutomationAction(action, tr.lead_id, leads, commit_ok) IN
              /\ leads' = out.leads
              /\ tr' = [tr EXCEPT !.i = @ + 1,
                                  !.triggered_actions = Append(@, action.action_type),
                                  !.execution_log = DictSet(@, action.action_type, out.result),
                                  !.outcomes = Append(@, out.result)]
    /\ UNCHANGED <<automations, automation_runs, result, run_changes>>
    /\ UNCHANGED notAutoVars

\* trigger_automation, lines 186-197: the loop is over; mark the Run completed
\* and commit.  When the commit raises, control passes to the except clause.
TriggerAutomation_Complete ==
    /\ tr.pc = "loop"
    /\ tr.i > Len(automations[tr.automation_id].actions)
    /\ \E commit_ok \in BOOLEAN :
         IF commit_ok
         THEN /\ automation_runs' = [automation_runs EXCEPT ![tr.run_id] =
                    [@ EXCEPT !.status = "completed", !.completed_at = "set",
                              !.execution_log = tr.execution_log]]
              /\ run_changes' = [run_changes EXCEPT ![tr.run_id] = @ + 1]
              /\ result' = Returned(TRUE, tr.run_id, tr.triggered_actions, tr.outcomes)
              /\ tr' = TrIdle
         ELSE /\ tr' = [tr EXCEPT !.pc = "except"]
              /\ UNCHANGED <<automation_runs, run_changes, result>>
    /\ UNCHANGED <<automations, leads>>
    /\ UNCHANGED notAutoVars

\* trigger_automation, lines 199-216: the except clause marks the Run failed
\* and commits again.  When this commit raises too, the exception leaves the
\* call and the stored Run stays as it was.
TriggerAutomation_Except ==
    /\ tr.pc = "except"
    /\ \E commit_ok \in BOOLEAN :
         IF commit_ok
         THEN /\ automation_runs' = [automation_runs EXCEPT ![tr.run_id] =
                    [@ EXCEPT !.status = "failed", !.completed_at = "set",
                              !.execution_log =
                                  [error |-> "commit raised",
                                   executed_actions |-> tr.triggered_actions,
                                   execution_log |-> tr.execution_log]]]
              /\ run_changes' = [run_changes EXCEPT ![tr.run_id] = @ + 1]
              /\ result' = Returned(FALSE, tr.run_id, tr.triggered_actions, tr.outcomes)
         ELSE /\ result' = Raised
              /\ UNCHANGED <<automation_runs, run_changes>>
    /\ tr' = TrIdle
    /\ UNCHANGED <<automations, leads>>
    /\ UNCHANGED notAutoVars

\* The actions an automation is built from in this model.
ActionPool ==
    { [action_type |-> "add_tag", is_active |-> TRUE,
       configuration |-> [NoConfig EXCEPT !.tag = S_vip]],
      [action_type |-> "add_tag", is_active |-> TRUE, configuration |-> NoConfig],
      [action_type |-> "add_tag", is_active |-> FALSE,
       configuration |-> [NoConfig EXCEPT !.tag = S_vip]],
      [action_type |-> "update_lead_status", is_active |-> TRUE,
       configuration |-> [NoConfig EXCEPT !.status = S_qualified]],
      [action_type |-> "send_email", is_active |-> TRUE, configuration |-> NoConfig],
      [action_type |-> "webhook", is_active |-> TRUE, configuration |-> NoConfig] }

ActionLists == UNION { [1..n -> ActionPool] : n \in 0..MaxActions }

\* The action types whose handler requires a configuration key.
ConfiguredActionTypes ==
    {"send_email", "update_lead_status", "update_lead_priority", "assign_lead",
     "add_tag", "remove_tag"}

\* One action of each such type whose configuration lacks the key, and one
\* action that is fully configured.
MissingConfigPool ==
    { [action_type |-> t, is_active |-> TRUE, configuration |-> NoConfig] :
        t \in ConfiguredActionTypes }
    \cup { [action_type |-> "update_lead_status", is_active |-> TRUE,
            configuration |-> [NoConfig EXCEPT !.status = S_qualified]] }

MissingConfigLists == UNION { [1..n -> MissingConfigPool] : n \in 1..MaxActions }

\* The rows of automation_actions an automation may own: each has its
\* action_order (an integer column, default 0, not unique).
ActionOrders == {0, 1, 2}
OrderedActionRows ==
    { [action_type |-> t, is_active |-> b, action_order |-> o,
       configuration |-> [NoConfig EXCEPT !.tag = S_vip]] :
        t \in {"add_tag", "send_notification"}, b \in BOOLEAN, o \in ActionOrders }
StoredActionSets ==
    { rows \in SUBSET OrderedActionRows : Cardinality(rows) \in 1..MaxActions }

\* The relationship loaded in the rows' storage order, without an order_by.
ActionsRelationship_Unordered(rows) ==
    { acts \in [1..Cardinality(rows) -> rows] :
        \A i, j \in DOMAIN acts : i # j => acts[i] # acts[j] }

\* Automation.actions, order_by action_order: the rows as a list in ascending
\* action_order; rows of equal action_order come in any order.
ActionsRelationship(rows) ==
    { acts \in [1..Cardinality(rows) -> rows] :
        /\ \A i, j \in DOMAIN acts : i # j => acts[i] # acts[j]
        /\ \A i, j \in DOMAIN acts :
              i < j => acts[i].action_order <= acts[j].action_order }

\* The action types whose handler writes a lead.
MutatingActionTypes ==
    {"update_lead_status", "update_lead_priority", "assign_lead", "add_tag", "remove_tag"}

\* One fully configured action of each mutating type; the tag of an add_tag
\* action is any non-empty string of the configuration dict.
MutatingActionPool ==
    { [action_type |-> "update_lead_status", is_active |-> TRUE,
       configuration |-> [NoConfig EXCEPT !.status = S_qualified]],
      [action_type |-> "update_lead_priority", is_active |-> TRUE,
       configuration |-> [NoConfig EXCEPT !.priority = S_high]],
      [action_type |-> "assign_lead", is_active |-> TRUE,
       configuration |-> [NoConfig EXCEPT !.agent_id = 1]],
      [action_type |-> "add_tag", is_active |-> TRUE,
       configuration |-> [NoConfig EXCEPT !.tag = S_vip]],
      [action_type |-> "add_tag", is_active |-> TRUE,
       configuration |-> [NoConfig EXCEPT !.tag = S_a_b]],
      [action_type |-> "remove_tag", is_active |-> TRUE,
       configuration |-> [NoConfig EXCEPT !.tag = S_vip]] }

\* Automations that execute the same action several times in a row.
RepeatedActionLists ==
    { [i \in 1..n |-> a] : a \in MutatingActionPool, n \in 2..MaxActions }


(***************************************************************************)
(* Segmentation                                                            *)
(***************************************************************************)
MaxRules == 2

SegmentIds == {1}
SegLeadIds == {1, 2}

SeqToSet(q) == {q[i] : i \in DOMAIN q}

\* A SQLAlchemy condition on one column of Lead, or None.
Condition(op, column, value) == [op |-> op, column |-> column, value |-> value]
NoCondition == [op |-> "none"]

\* _build_status_condition and _build_priority_condition
BuildEnumCondition(column, operator, value) ==
    CASE operator = "equals" -> Condition("eq", column, value)
      [] operator = "not_equals" -> Condition("ne", column, value)
      [] operator = "in" -> Condition("in", column, SeqToSet(Split(value, ",")))
      [] operator = "not_in" -> Condition("not_in", column, SeqToSet(Split(value, ",")))
      [] OTHER -> NoCondition

\* _build_insurance_type_condition, _build_state_condition, _build_city_condition
BuildTextCondition(column, operator, value) ==
    CASE operator = "equals" -> Condition("eq", column, value)
      [] operator = "not_equals" -> Condition("ne", column, value)
      [] operator = "contains" -> Condition("contains", column, value)
      [] operator = "starts_with" -> Condition("startswith", column, value)
      [] operator = "ends_with" -> Condition("endswith", column, value)
      [] operator = "in" -> Condition("in", column, SeqToSet(Split(value, ",")))
      [] operator = "not_in" -> Condition("not_in", column, SeqToSet(Split(value, ",")))
      [] OTHER -> NoCondition

\* _build_source_condition; a ValueError of int() is caught by
\* _build_rule_condition, which then returns None.
BuildSourceCondition(operator, value) ==
    LET parts == Split(value, ",")
        nums == {ParseNumber(parts[i]) : i \in DOMAIN parts}
    IN CASE operator = "equals" ->
              IF ParseNumber(value).ok
              THEN Condition("eq", "source_id", ParseNumber(value).v) ELSE NoCondition
         [] operator = "not_equals" ->
              IF ParseNumber(value).ok
              THEN Condition("ne", "source_id", ParseNumber(value).v) ELSE NoCondition
         [] operator = "in" ->
              IF \A n \in nums : n.ok
              THEN Condition("in", "source_id", {n.v : n \in nums}) ELSE NoCondition
         [] operator = "not_in" ->
              IF \A n \in nums : n.ok
              THEN Condition("not_in", "source_id", {n.v : n \in nums}) ELSE NoCondition
         [] OTHER -> NoCondition

\* _build_value_estimate_condition
BuildValueEstimateCondition(operator, value) ==
    LET f == ParseNumber(value) IN
    IF ~f.ok THEN NoCondition
    ELSE CASE operator = "equals" -> Condition("eq", "value_estimate", f.v)
           [] operator = "not_equals" -> Condition("ne", "value_estimate", f.v)
           [] operator = "greater_than" -> Condition("gt", "value_estimate", f.v)
           [] operator = "less_than" -> Condition("lt", "value_estimate", f.v)
           [] OTHER -> NoCondition

\* _build_tags_condition
BuildTagsCondition(operator, value) ==
    CASE operator = "contains" -> Condition("contains", "tags", value)
      [] operator = "not_contains" -> Condition("not_contains", "tags", value)
      [] operator = "equals" -> Condition("eq", "tags", value)
      [] operator = "not_equals" -> Condition("ne", "tags", value)
      [] OTHER -> NoCondition

\* _build_rule_condition: the dispatch on the rule's field (the rules of this
\* model name no created_at or updated_at field).
BuildRuleCondition(rule) ==
    CASE rule.field = "status" -> BuildEnumCondition("status", rule.operator, rule.value)
      [] rule.field = "priority" -> BuildEnumCondition("priority", rule.operator, rule.value)
      [] rule.field = "source" -> BuildSourceCondition(rule.operator, rule.value)
      [] rule.field = "insurance_type" ->
              BuildTextCondition("insurance_type", rule.operator, rule.value)
      [] rule.field = "state" -> BuildTextCondition("state", rule.operator, rule.value)
      [] rule.field = "city" -> BuildTextCondition("city", rule.operator, rule.value)
      [] rule.field = "value_estimate" ->
              BuildValueEstimateCondition(rule.operator, rule.value)
      [] rule.field = "tags" -> BuildTagsCondition(rule.operator, rule.value)
      [] OTHER -> NoCondition

\* What the database makes of a condition on one row (the columns of this
\* model are never NULL).
EvalCondition(c, lead) ==
    LET x == lead[c.column] IN
    CASE c.op = "eq" -> x = c.value
      [] c.op = "ne" -> x # c.value
      [] c.op = "in" -> x \in c.value
      [] c.op = "not_in" -> x \notin c.value
      [] c.op = "contains" -> StrContains(x, c.value)
      [] c.op = "not_contains" -> ~StrContains(x, c.value)
      [] c.op = "startswith" -> StrStartsWith(x, c.value)
      [] c.op = "endswith" -> StrEndsWith(x, c.value)
      [] c.op = "gt" -> x > c.value
      [] c.op = "lt" -> x < c.value

\* evaluate_segment, lines 150-158: the conditions of the active rules, the
\* rules without a condition left out.
SegmentConditions(segment) ==
    LET rules == segment.rules
        F[i \in 0..Len(rules)] ==
            IF i = 0 THEN <<>>
            ELSE IF ~rules[i].is_active THEN F[i - 1]
            ELSE IF BuildRuleCondition(rules[i]) = NoCondition THEN F[i - 1]
            ELSE Append(F[i - 1], BuildRuleCondition(rules[i]))
    IN F[Len(rules)]

\* evaluate_segment, lines 160-164: the WHERE clause the conditions give.
RulesWhere(segment, lead) ==
    LET conditions == SegmentConditions(segment) IN
    IF conditions # <<>>
    THEN IF segment.match_all_rules
         THEN \A i \in DOMAIN conditions : EvalCondition(conditions[i], lead)
         ELSE \E i \in DOMAIN conditions : EvalCondition(conditions[i], lead)
    ELSE TRUE

\* The query of evaluate_segment without the organization filter of line 171.
MatchingLeadIds_AnyOrganization(segment, lead_ids) ==
    { id \in DOMAIN leads :
        /\ RulesWhere(segment, leads[id])
        /\ lead_ids # {} => id \in lead_ids }

\* evaluate_segment, lines 148-174: the ids the query returns; lead_ids is the
\* optional filter, empty when the caller passes none.
MatchingLeadIds(segment, lead_ids) ==
    { id \in DOMAIN leads :
        /\ RulesWhere(segment, leads[id])
        /\ lead_ids # {} => id \in lead_ids
        /\ leads[id].organization_id = segment.organization_id }

NoEvaluation == [kind |-> "none"]

\* evaluate_segment
EvaluateSegment(segment_id, lead_ids) ==
    /\ evaluation' =
         IF segment_id \notin DOMAIN segments
         THEN [kind |-> "error", segment_id |-> segment_id, lead_ids |-> lead_ids,
               matching_leads |-> {}]
         ELSE [kind |-> "result", segment_id |-> segment_id, lead_ids |-> lead_ids,
               matching_leads |-> MatchingLeadIds(segments[segment_id], lead_ids)]
    /\ UNCHANGED <<segments, leads>>
    /\ UNCHANGED notSegVars

Rule(field, operator, value, is_active) ==
    [field |-> field, operator |-> operator, value |-> value, is_active |-> is_active]

\* The rules a segment is built from in this model.
RulePool ==
    { Rule("status", "equals", S_new, TRUE),
      Rule("status", "equals", S_new, FALSE),
      Rule("state", "equals", S_CA, TRUE),
      Rule("status", "in", S_new_lost, TRUE),
      Rule("value_estimate", "greater_than", S_100, TRUE),
      Rule("value_estimate", "greater_than", S_abc, TRUE),
      Rule("state", "greater_than", S_CA, TRUE),
      Rule("score", "equals", S_100, TRUE),
      Rule("tags", "contains", S_vip, TRUE) }

RuleLists == UNION { [1..n -> RulePool] : n \in 0..MaxRules }

SegLead(org, status, state, value_estimate, tags) ==
    [organization_id |-> org, status |-> status, priority |-> S_medium, source_id |-> 1,
     insurance_type |-> <<>>, state |-> state, city |-> <<>>,
     value_estimate |-> value_estimate, tags |-> tags, assignee_id |-> 0]

\* The leads the segments are evaluated on in this model.
LeadPool ==
    { SegLead(1, S_new, S_CA, 200, S_vip),
      SegLead(1, S_new, S_NY, 50, <<>>),
      SegLead(1, S_lost, S_CA, 50, <<>>),
      SegLead(2, S_new, S_CA, 200, S_vip) }

\* The lead the automations act on in this model.
NewLead == SegLead(1, S_new, S_CA, 0, <<>>)

\* The leads table of the re-execution runs: the lead the automation is
\* triggered on and one more lead.
RepeatLeadIds == LeadIds \cup {2}
RepeatLeads == { SegLead(1, S_new, S_CA, 0, tags) : tags \in {<<>>, S_vip} }

(***************************************************************************)
(* Segment memberships                                                     *)
(***************************************************************************)
MaxRows == 4

MemProcs == {"m1", "m2"}

LeadSegmentRow(lead_id, segment_id, is_active) ==
    [lead_id |-> lead_id, segment_id |-> segment_id, is_active |-> is_active]

\* select(LeadSegment).where(segment_id == sid).where(lead_id.in_(lead_ids)):
\* the ids of the rows the statement loads.
RowsOf(rows, sid, lead_ids) ==
    {i \in DOMAIN rows : rows[i].segment_id = sid /\ rows[i].lead_id \in lead_ids}

\* select(LeadSegment).where(segment_id == sid), without the is_active filter.
CurrentMembers_AnyState(rows, sid) ==
    {i \in DOMAIN rows : rows[i].segment_id = sid}

\* select(LeadSegment).where(segment_id == sid).where(is_active == True)
CurrentMembers(rows, sid) ==
    {i \in DOMAIN rows : rows[i].segment_id = sid /\ rows[i].is_active}

\* {m.lead_id for m in ...}
LeadIdsOf(rows, ids) == {rows[i].lead_id : i \in ids}

\* A session keeps the column values of every row it has loaded; a row that
\* is loaded again keeps the values of its first load (expire_on_commit=False).
EmptySession == [i \in {} |-> TRUE]
SessionLoad(session, rows, ids) ==
    [i \in (DOMAIN session) \cup ids |->
        IF i \in DOMAIN session THEN session[i] ELSE rows[i].is_active]
SessionSet(session, ids, value) ==
    [i \in DOMAIN session |-> IF i \in ids THEN value ELSE session[i]]

\* new_lead_ids, every requested id taken as new.
NewLeadIds_Unfiltered(lead_ids, existing_lead_ids) == lead_ids

\* new_lead_ids = [lid for lid in lead_ids if lid not in existing_lead_ids]
NewLeadIds(lead_ids, existing_lead_ids) ==
    LET IsNew(lid) == lid \notin existing_lead_ids
    IN SelectSeq(lead_ids, IsNew)

\* ls.is_active = True that writes nothing.
ReactivateRows_Skip(rows, session, loaded) == rows

\* for ls in existing_lead_segments: ls.is_active = True, then the commit: the
\* UPDATE reaches the loaded rows whose value in the session changes.
ReactivateRows(rows, session, loaded) ==
    [i \in DOMAIN rows |->
        IF i \in loaded /\ session[i] # TRUE THEN [rows[i] EXCEPT !.is_active = TRUE]
        ELSE rows[i]]

\* A removal that deletes the loaded rows.
DeactivateRows_Delete(rows, session, loaded) ==
    LET keep == {i \in DOMAIN rows : i \notin loaded}
        F[i \in 0..Len(rows)] ==
            IF i = 0 THEN <<>>
            ELSE IF i \in keep THEN Append(F[i - 1], rows[i]) ELSE F[i - 1]
    IN F[Len(rows)]

\* for ls in lead_segments: ls.is_active = False, then the commit.
DeactivateRows(rows, session, loaded) ==
    [i \in DOMAIN rows |->
        IF i \in loaded /\ session[i] # FALSE THEN [rows[i] EXCEPT !.is_active = FALSE]
        ELSE rows[i]]

\* A set of lead ids in some fixed order.
RECURSIVE IdList(_)
IdList(ids) ==
    IF ids = {} THEN <<>>
    ELSE LET m == CHOOSE x \in ids : \A y \in ids : x <= y
         IN <<m>> \o IdList(ids \ {m})

\* db.add_all(new_associations), then the commit: one new active row per
\* element of the list new_lead_ids.
InsertRows(rows, sid, new_lead_ids) ==
    rows \o [k \in 1..Len(new_lead_ids) |-> LeadSegmentRow(new_lead_ids[k], sid, TRUE)]

\* if not segment or not segment.is_dynamic: return 0 -- without the second test.
MembershipsUpdatable_StaticToo(sid) == sid \in DOMAIN segments

\* update_segment_memberships goes on past its first test.
MembershipsUpdatable(sid) == sid \in DOMAIN segments /\ segments[sid].is_dynamic

\* leads_to_add as the whole desired set.
LeadsToAdd_AllMatching(matching_lead_ids, current_lead_ids) == matching_lead_ids

\* leads_to_add and leads_to_remove
LeadsToAdd(matching_lead_ids, current_lead_ids) == matching_lead_ids \ current_lead_ids
LeadsToRemove(matching_lead_ids, current_lead_ids) == current_lead_ids \ matching_lead_ids

McIdle ==
    [pc |-> "idle", op |-> "none", segment_id |-> 0, lead_ids |-> {},
     lead_id_list |-> <<>>,
     to_add |-> {}, to_remove |-> {}, session |-> EmptySession, loaded |-> {},
     new_lead_ids |-> <<>>, rows_before |-> <<>>]

NoCall ==
    [op |-> "none", segment_id |-> 0, lead_ids |-> {}, ok |-> TRUE, ret |-> 0,
     active_before |-> {}, changed |-> FALSE, repeat |-> FALSE]

\* The call c of caller p is over: it returned ret, or it raised (ok = FALSE).
EndCall(p, c, ok, ret) ==
    /\ last_call' =
         LET lead_ids == IF c.op = "update" THEN {} ELSE c.lead_ids IN
         [op |-> c.op, segment_id |-> c.segment_id, lead_ids |-> lead_ids,
          ok |-> ok, ret |-> ret,
          \* the leads that were active members of the segment when the call began
          active_before |->
              LeadIdsOf(c.rows_before, CurrentMembers(c.rows_before, c.segment_id)),
          \* the call left the table different from what it was when the call began
          changed |-> memberships' # c.rows_before,
          \* the call before was the same call and it returned
          repeat |-> /\ last_call.op = c.op
                     /\ last_call.segment_id = c.segment_id
                     /\ last_call.lead_ids = lead_ids
                     /\ last_call.ok]
    /\ mc' = [mc EXCEPT ![p] = McIdle]
    /\ store_failed' = (store_failed \/ ~ok)

\* The call of caller p goes on as c.
Continue(p, c) ==
    /\ mc' = [mc EXCEPT ![p] = c]
    /\ UNCHANGED <<last_call, store_failed>>

\* update_segment_memberships, lines 485-503: look the segment up, evaluate it,
\* read the active members and compute the diff; ok tells whether these reads
\* went through.
UpdateSegmentMemberships_Begin(p, sid) ==
    /\ mc[p].pc = "idle"
    /\ UNCHANGED <<memberships, memberships0>>
    /\ \E ok \in BOOLEAN :
         LET c == [McIdle EXCEPT !.op = "update", !.segment_id = sid,
                                 !.rows_before = memberships]
         IN IF ~ok THEN EndCall(p, c, FALSE, 0)
            ELSE IF ~MembershipsUpdatable(sid) THEN EndCall(p, c, TRUE, 0)
            ELSE \E matching_lead_ids \in {MatchingLeadIds(segments[sid], {})} :
                 LET current_members == CurrentMembers(memberships, sid)
                     current_lead_ids == LeadIdsOf(memberships, current_members)
                     leads_to_add == LeadsToAdd(matching_lead_ids, current_lead_ids)
                     leads_to_remove == LeadsToRemove(matching_lead_ids, current_lead_ids)
                 IN IF leads_to_add = {} /\ leads_to_remove = {}
                    THEN EndCall(p, c, TRUE, 0)
                    ELSE Continue(p, [c EXCEPT
                           !.to_add = leads_to_add,
                           !.to_remove = leads_to_remove,
                           !.session = SessionLoad(EmptySession, memberships, current_members),
                           !.lead_ids = IF leads_to_add # {} THEN leads_to_add
                                        ELSE leads_to_remove,
                           !.lead_id_list = IdList(leads_to_add),
                           !.pc = IF leads_to_add # {} THEN "add_select"
                                  ELSE "remove_select"])
    /\ UNCHANGED notMemVars

\* add_leads_to_segment called by a client with the list lead_ids; the call
\* keeps the list (line 406 iterates it) and, for the IN filter of line 401,
\* the set of its elements.
AddLeadsToSegment_Call(p, sid, lead_ids) ==
    /\ mc[p].pc = "idle"
    /\ Continue(p, [McIdle EXCEPT !.op = "add", !.segment_id = sid,
                                  !.lead_ids = SeqToSet(lead_ids),
                                  !.lead_id_list = lead_ids,
                                  !.rows_before = memberships, !.pc = "add_select"])
    /\ UNCHANGED <<memberships, memberships0>>
    /\ UNCHANGED notMemVars

\* add_leads_to_segment, lines 394-406: look the segment up and load the rows
\* the segment has for the ids.
AddLeadsToSegment_Select(p) ==
    /\ mc[p].pc = "add_select"
    /\ UNCHANGED <<memberships, memberships0>>
    /\ \E ok \in BOOLEAN :
         LET c == mc[p]
             existing_lead_segments == RowsOf(memberships, c.segment_id, c.lead_ids)
             existing_lead_ids == LeadIdsOf(memberships, existing_lead_segments)
         IN IF ~ok THEN EndCall(p, c, FALSE, 0)
            ELSE IF c.segment_id \notin DOMAIN segments THEN EndCall(p, c, TRUE, 0)
            ELSE Continue(p, [c EXCEPT
                   !.session = SessionLoad(c.session, memberships, existing_lead_segments),
                   !.loaded = existing_lead_segments,
                   !.new_lead_ids = NewLeadIds(c.lead_id_list, existing_lead_ids),
                   !.pc = "add_commit"])
    /\ UNCHANGED notMemVars

\* add_leads_to_segment, lines 408-425: reactivate the loaded rows, add a row
\* per new id, commit and return; inside update_segment_memberships the call
\* goes on with the removals (lines 508-516).
AddLeadsToSegment_Commit(p) ==
    /\ mc[p].pc = "add_commit"
    /\ LET c == mc[p] IN
       \/ /\ UNCHANGED memberships
          /\ EndCall(p, c, FALSE, 0)
       \/ /\ Len(memberships) + Len(c.new_lead_ids) <= MaxRows
          /\ memberships' = InsertRows(ReactivateRows(memberships, c.session, c.loaded),
                                       c.segment_id, c.new_lead_ids)
          /\ IF c.op = "update" /\ c.to_remove # {}
             THEN Continue(p, [c EXCEPT !.session = SessionSet(c.session, c.loaded, TRUE),
                                        !.lead_ids = c.to_remove,
                                        !.lead_id_list = <<>>,
                                        !.loaded = {},
                                        !.new_lead_ids = <<>>,
                                        !.pc = "remove_select"])
             ELSE IF c.op = "update"
                  THEN EndCall(p, c, TRUE, Cardinality(c.to_add) + Cardinality(c.to_remove))
                  ELSE EndCall(p, c, TRUE,
                               Len(c.new_lead_ids) + Cardinality(c.loaded))
    /\ UNCHANGED memberships0
    /\ UNCHANGED notMemVars

\* remove_leads_from_segment called by a client.
RemoveLeadsFromSegment_Call(p, sid, lead_ids) ==
    /\ mc[p].pc = "idle"
    /\ Continue(p, [McIdle EXCEPT !.op = "remove", !.segment_id = sid, !.lead_ids = lead_ids,
                                  !.rows_before = memberships, !.pc = "remove_select"])
    /\ UNCHANGED <<memberships, memberships0>>
    /\ UNCHANGED notMemVars

\* remove_leads_from_segment, lines 429-434: load the rows the segment has for
\* the ids.
RemoveLeadsFromSegment_Select(p) ==
    /\ mc[p].pc = "remove_select"
    /\ UNCHANGED <<memberships, memberships0>>
    /\ \E ok \in BOOLEAN :
         LET c == mc[p]
             lead_segments == RowsOf(memberships, c.segment_id, c.lead_ids)
         IN IF ~ok THEN EndCall(p, c, FALSE, 0)
            ELSE Continue(p, [c EXCEPT
                   !.session = SessionLoad(c.session, memberships, lead_segments),
                   !.loaded = lead_segments,
                   !.pc = "remove_commit"])
    /\ UNCHANGED notMemVars

\* remove_leads_from_segment, lines 436-440: deactivate the loaded rows, commit
\* and return; inside update_segment_memberships the call then returns the
\* size of the diff (line 516).
RemoveLeadsFromSegment_Commit(p) ==
    /\ mc[p].pc = "remove_commit"
    /\ LET c == mc[p] IN
       \/ /\ UNCHANGED memberships
          /\ EndCall(p, c, FALSE, 0)
       \/ /\ memberships' = DeactivateRows(memberships, c.session, c.loaded)
          /\ IF c.op = "update"
             THEN EndCall(p, c, TRUE, Cardinality(c.to_add) + Cardinality(c.to_remove))
             ELSE EndCall(p, c, TRUE, Cardinality(c.loaded))
    /\ UNCHANGED memberships0
    /\ UNCHANGED notMemVars

\* The lead_segments tables a behaviour starts from: per lead no row, an
\* active row or an inactive row in the segment.
InitRows ==
    { LET with == {l \in SegLeadIds : st[l] # "none"} IN
      [k \in 1..Cardinality(with) |->
          LeadSegmentRow(IdList(with)[k], 1, st[IdList(with)[k]] = "active")] :
      st \in [SegLeadIds -> {"none", "active", "inactive"}] }

\* The leads tables the memberships are computed on.
MemLeadTables ==
    { << SegLead(1, S_new, S_CA, 200, S_vip), SegLead(1, S_lost, S_CA, 50, <<>>) >>,
      << SegLead(1, S_new, S_NY, 50, <<>>), SegLead(2, S_new, S_CA, 200, S_vip) >> }

\* The one-rule and no-rule segments the memberships are computed for.
MemRuleLists == { <<>>,
                  << Rule("status", "equals", S_new, TRUE) >>,
                  << Rule("state", "equals", S_NY, TRUE) >> }

(***************************************************************************)
(* Specifications                                                          *)
(***************************************************************************)
TasksIdle ==
    /\ tasks = [id \in TaskIds |-> [status |-> "pending", retry_count |-> 0, max_retries |-> 0,
                                    scheduled_for |-> 0, priority |-> 0]]
    /\ now = 0
    /\ pc = [p \in Procs |-> "idle"]
    /\ due_tasks = [p \in Procs |-> <<>>]
    /\ idx = [p \in Procs |-> 1]
    /\ call_now = [p \in Procs |-> 0]
    /\ processed_count = [p \in Procs |-> 0]
    /\ attempts = [id \in TaskIds |-> 0]
    /\ failures = [id \in TaskIds |-> 0]
    /\ term_at_start = [p \in Procs |-> {}]

AutoIdle ==
    /\ automations = [a \in AutomationIds |-> [is_active |-> TRUE, actions |-> <<>>]]
    /\ leads = [l \in LeadIds |-> NewLead]
    /\ automation_runs = <<>>
    /\ tr = TrIdle
    /\ result = NoResult
    /\ run_changes = <<>>

SegIdle ==
    /\ segments = [sid \in SegmentIds |->
                     [organization_id |-> 1, match_all_rules |-> TRUE, is_dynamic |-> TRUE,
                      rules |-> <<>>]]
    /\ evaluation = NoEvaluation

MemIdle ==
    /\ memberships = <<>>
    /\ mc = [p \in MemProcs |-> McIdle]
    /\ last_call = NoCall
    /\ memberships0 = <<>>
    /\ store_failed = FALSE

InitTasks ==
    /\ AutoIdle
    /\ SegIdle
    /\ MemIdle
    /\ tasks \in [TaskIds -> NewTaskRows]
    /\ now = 0
    /\ pc = [p \in Procs |-> "idle"]
    /\ due_tasks = [p \in Procs |-> <<>>]
    /\ idx = [p \in Procs |-> 1]
    /\ call_now = [p \in Procs |-> 0]
    /\ processed_count = [p \in Procs |-> 0]
    /\ attempts = [id \in TaskIds |-> 0]
    /\ failures = [id \in TaskIds |-> 0]
    /\ term_at_start = [p \in Procs |-> {}]

NextTasks ==
    \/ \E p \in Procs : ProcessDueTasks_Select(p)
    \/ \E p \in Procs : ProcessDueTasks_Task(p)
    \/ \E p \in Procs : ProcessDueTasks_Return(p)
    \/ Tick

SpecTasks == InitTasks /\ [][NextTasks]_vars

\* Task creation: the table starts empty; tasks are created from requests and
\* processed by one caller of process_due_tasks.
InitCreate ==
    /\ AutoIdle
    /\ SegIdle
    /\ MemIdle
    /\ tasks = [id \in TaskIds |-> NoTask]
    /\ now = 0
    /\ pc = [p \in Procs |-> "idle"]
    /\ due_tasks = [p \in Procs |-> <<>>]
    /\ idx = [p \in Procs |-> 1]
    /\ call_now = [p \in Procs |-> 0]
    /\ processed_count = [p \in Procs |-> 0]
    /\ attempts = [id \in TaskIds |-> 0]
    /\ failures = [id \in TaskIds |-> 0]
    /\ term_at_start = [p \in Procs |-> {}]

NextCreate ==
    \/ \E id \in TaskIds, task_data \in ScheduledTaskCreateRequests :
          CreateScheduledTask(id, task_data)
    \/ ProcessDueTasks_Select("p1")
    \/ ProcessDueTasks_Task("p1")
    \/ ProcessDueTasks_Return("p1")
    \/ Tick

SpecCreate == InitCreate /\ [][NextCreate]_vars

InitAuto ==
    /\ TasksIdle
    /\ SegIdle
    /\ MemIdle
    /\ automations \in [AutomationIds -> [is_active : BOOLEAN, actions : ActionLists]]
    /\ leads = [l \in LeadIds |-> NewLead]
    /\ automation_runs = <<>>
    /\ tr = TrIdle
    /\ result = NoResult
    /\ run_changes = <<>>

NextAuto ==
    \/ \E a \in AutomationIds \cup {2} : \E l \in LeadIds \cup {0} :
         TriggerAutomation_Begin(a, l)
    \/ TriggerAutomation_Action
    \/ TriggerAutomation_Complete
    \/ TriggerAutomation_Except

SpecAuto == InitAuto /\ [][NextAuto]_vars

\* Automations whose actions lack their required configuration key.
InitConfig ==
    /\ TasksIdle
    /\ SegIdle
    /\ MemIdle
    /\ automations \in [AutomationIds -> [is_active : {TRUE}, actions : MissingConfigLists]]
    /\ leads = [l \in LeadIds |-> NewLead]
    /\ automation_runs = <<>>
    /\ tr = TrIdle
    /\ result = NoResult
    /\ run_changes = <<>>

SpecConfig == InitConfig /\ [][NextAuto]_vars

\* Automations whose actions are loaded through the ordered relationship.
InitOrder ==
    /\ TasksIdle
    /\ SegIdle
    /\ MemIdle
    /\ automations \in
         [AutomationIds ->
            [is_active : {TRUE},
             actions : UNION { ActionsRelationship(rows) : rows \in StoredActionSets }]]
    /\ leads = [l \in LeadIds |-> NewLead]
    /\ automation_runs = <<>>
    /\ tr = TrIdle
    /\ result = NoResult
    /\ run_changes = <<>>

SpecOrder == InitOrder /\ [][NextAuto]_vars

\* Automations that re-execute one mutating action on a lead.
InitRepeat ==
    /\ TasksIdle
    /\ SegIdle
    /\ MemIdle
    /\ automations \in [AutomationIds -> [is_active : {TRUE}, actions : RepeatedActionLists]]
    /\ leads \in [RepeatLeadIds -> RepeatLeads]
    /\ automation_runs = <<>>
    /\ tr = TrIdle
    /\ result = NoResult
    /\ run_changes = <<>>

SpecRepeat == InitRepeat /\ [][NextAuto]_vars

InitSeg ==
    /\ TasksIdle
    /\ MemIdle
    /\ automations = [a \in AutomationIds |-> [is_active |-> TRUE, actions |-> <<>>]]
    /\ automation_runs = <<>>
    /\ tr = TrIdle
    /\ result = NoResult
    /\ run_changes = <<>>
    /\ leads \in [SegLeadIds -> LeadPool]
    /\ segments \in [SegmentIds ->
                       [organization_id : {1}, match_all_rules : BOOLEAN,
                        is_dynamic : {TRUE}, rules : RuleLists]]
    /\ evaluation = NoEvaluation

NextSeg ==
    \E sid \in SegmentIds \cup {2} : \E lead_ids \in SUBSET SegLeadIds :
        EvaluateSegment(sid, lead_ids)

SpecSeg == InitSeg /\ [][NextSeg]_vars

\* Segments of either organization over leads of both, with rules that leads
\* of both organizations satisfy.
ScopeRuleLists ==
    UNION { [1..n -> { Rule("status", "equals", S_new, TRUE),
                       Rule("state", "equals", S_CA, TRUE),
                       Rule("tags", "contains", S_vip, TRUE) }] : n \in 0..MaxRules }

InitScope ==
    /\ TasksIdle
    /\ MemIdle
    /\ automations = [a \in AutomationIds |-> [is_active |-> TRUE, actions |-> <<>>]]
    /\ automation_runs = <<>>
    /\ tr = TrIdle
    /\ result = NoResult
    /\ run_changes = <<>>
    /\ leads \in [SegLeadIds -> LeadPool]
    /\ segments \in [SegmentIds ->
                       [organization_id : {1, 2}, match_all_rules : BOOLEAN,
                        is_dynamic : {TRUE}, rules : ScopeRuleLists]]
    /\ evaluation = NoEvaluation

SpecScope == InitScope /\ [][NextSeg]_vars

InitMem ==
    /\ TasksIdle
    /\ automations = [a \in AutomationIds |-> [is_active |-> TRUE, actions |-> <<>>]]
    /\ automation_runs = <<>>
    /\ tr = TrIdle
    /\ result = NoResult
    /\ run_changes = <<>>
    /\ evaluation = NoEvaluation
    /\ leads \in MemLeadTables
    /\ segments \in [SegmentIds ->
                       [organization_id : {1}, match_all_rules : {TRUE},
                        is_dynamic : BOOLEAN, rules : MemRuleLists]]
    /\ memberships \in InitRows
    /\ mc = [p \in MemProcs |-> McIdle]
    /\ last_call = NoCall
    /\ memberships0 = memberships
    /\ store_failed = FALSE

\* One client at a time calls the membership operations.
NextMem ==
    \/ \E sid \in SegmentIds \cup {2} : UpdateSegmentMemberships_Begin("m1", sid)
    \/ \E sid \in SegmentIds \cup {2} : \E lead_ids \in (SUBSET SegLeadIds) \ {{}} :
         AddLeadsToSegment_Call("m1", sid, IdList(lead_ids))
    \/ \E sid \in SegmentIds : \E lead_ids \in (SUBSET SegLeadIds) \ {{}} :
         RemoveLeadsFromSegment_Call("m1", sid, lead_ids)
    \/ \E p \in MemProcs : AddLeadsToSegment_Select(p)
    \/ \E p \in MemProcs : AddLeadsToSegment_Commit(p)
    \/ \E p \in MemProcs : RemoveLeadsFromSegment_Select(p)
    \/ \E p \in MemProcs : RemoveLeadsFromSegment_Commit(p)

SpecMem == InitMem /\ [][NextMem]_vars

\* The lists a client may pass as lead_ids, lists that repeat an id included.
LeadIdLists == UNION { [1..n -> SegLeadIds] : n \in 1..Cardinality(SegLeadIds) }

\* One client at a time calls the membership operations with any such list.
NextMemList ==
    \/ \E sid \in SegmentIds : UpdateSegmentMemberships_Begin("m1", sid)
    \/ \E sid \in SegmentIds : \E lead_ids \in LeadIdLists :
         AddLeadsToSegment_Call("m1", sid, lead_ids)
    \/ \E sid \in SegmentIds : \E lead_ids \in LeadIdLists :
         RemoveLeadsFromSegment_Call("m1", sid, SeqToSet(lead_ids))
    \/ AddLeadsToSegment_Select("m1")
    \/ AddLeadsToSegment_Commit("m1")
    \/ RemoveLeadsFromSegment_Select("m1")
    \/ RemoveLeadsFromSegment_Commit("m1")

SpecMemList == InitMem /\ [][NextMemList]_vars

\* Two clients recompute the memberships of a segment concurrently.
NextMemConc ==
    \/ \E p \in MemProcs : \E sid \in SegmentIds : UpdateSegmentMemberships_Begin(p, sid)
    \/ \E p \in MemProcs : AddLeadsToSegment_Select(p)
    \/ \E p \in MemProcs : AddLeadsToSegment_Commit(p)
    \/ \E p \in MemProcs : RemoveLeadsFromSegment_Select(p)
    \/ \E p \in MemProcs : RemoveLeadsFromSegment_Commit(p)

SpecMemConc == InitMem /\ [][NextMemConc]_vars

(***************************************************************************)
(* Claims about the scheduled task queue (checked under SpecTasks)         *)
(***************************************************************************)

\* The ids of the tasks a call's query loaded.
LoadedIds(q) == {q[i].id : i \in DOMAIN q}

\* C1: under concurrent process_due_tasks calls every due pending task is
\* claimed and processed by exactly one call: no task is processed by two
\* calls, so the attempts over all calls never exceed one per eligible task.
C1_ExclusiveClaim ==
    \A id \in TaskIds : attempts[id] <= 1

\* C2: a task created with max_retries = N and retry_count = 0 whose
\* processing fails on every attempt is failed after exactly N+1 attempts:
\* not failed after fewer, never attempted an (N+2)-th time.
C2_FailedAfterNPlusOneAttempts ==
    \A id \in TaskIds :
        failures[id] = attempts[id] =>
            /\ attempts[id] <= tasks[id].max_retries + 1
            /\ tasks[id].status = "failed" => attempts[id] = tasks[id].max_retries + 1

\* C3: a task in retry_scheduled whose scheduled_for has passed is selected
\* by the next process_due_tasks call, by the same rule as a pending task.
C3_RetryScheduledSelectedAgain ==
    [][\A p \in Procs :
         (pc[p] = "idle" /\ pc'[p] = "run") =>
             \A id \in TaskIds :
                 (tasks[id].status = "retry_scheduled" /\ tasks[id].scheduled_for <= now)
                     => id \in LoadedIds(due_tasks'[p])]_vars

\* C4: a task that is completed or failed when a process_due_tasks call
\* starts is neither selected nor modified by that call.
C4_TerminalNeverReclaimed ==
    [][\A p \in Procs :
         /\ \A id \in term_at_start'[p] : id \notin LoadedIds(due_tasks'[p])
         /\ ProcessDueTasks_Task(p) =>
                \A id \in term_at_start[p] : tasks'[id] = tasks[id]]_vars

\* C4 witness: a running call that started when a due task was already
\* terminal has processed another task and left the terminal one as it was.
C4_Witness ==
    \E p \in Procs : \E id \in term_at_start[p] :
        /\ pc[p] = "run"
        /\ idx[p] > 1
        /\ tasks[id].scheduled_for <= call_now[p]
        /\ tasks[id].status \in TerminalStatuses

(***************************************************************************)
(* Claims about the automation pipeline (checked under SpecAuto)           *)
(***************************************************************************)

RunTerminalStatuses == {"completed", "failed"}

\* The active actions of an automation, in execution order.
ActiveActions(a) ==
    LET acts == automations[a].actions
        F[i \in 0..Len(acts)] ==
            IF i = 0 THEN <<>>
            ELSE IF acts[i].is_active THEN Append(F[i - 1], acts[i]) ELSE F[i - 1]
    IN F[Len(acts)]

\* C5: when trigger_automation has run an active automation to the end, it
\* has executed every active action (also after one that reported failure),
\* the Run is completed, and the Run's execution_log holds one outcome per
\* executed action, the failed ones with success = false.
C5_EveryActionExecutedAndLogged ==
    (result.kind = "returned" /\ result.success) =>
        LET run == automation_runs[result.automation_run_id]
            log == run.execution_log
            n == Len(result.triggered_actions)
        IN /\ run.status = "completed"
           /\ n = Len(ActiveActions(run.automation_id))
           /\ \A i \in 1..n :
                result.triggered_actions[i] = ActiveActions(run.automation_id)[i].action_type
           /\ Cardinality(DOMAIN log) = n
           /\ \A i \in 1..n :
                ~result.outcomes[i].success =>
                    ~log[result.triggered_actions[i]].success

\* C6: every AutomationRun is created in processing, changes status exactly
\* once (to completed or failed: once its call is over it has changed), and
\* its row is never modified after it has reached completed or failed.
C6_RunTransitionsExactlyOnce ==
    [][\A r \in DOMAIN automation_runs' :
         /\ r \notin DOMAIN automation_runs => automation_runs'[r].status = "processing"
         /\ r \in DOMAIN automation_runs =>
              /\ automation_runs[r].status \in RunTerminalStatuses
                    => automation_runs'[r] = automation_runs[r]
              /\ automation_runs'[r].status # automation_runs[r].status
                    => /\ automation_runs[r].status = "processing"
                       /\ automation_runs'[r].status \in RunTerminalStatuses
         /\ run_changes'[r] <= 1
         /\ tr'.run_id # r => run_changes'[r] = 1]_vars

\* C7: every AutomationRun whose trigger_automation call is over is completed
\* or failed, never left in processing; when the call went through the except
\* clause the Run is stored as failed with the exception text under
\* execution_log.error.
C7_RunNeverLeftProcessing ==
    /\ \A r \in DOMAIN automation_runs :
         tr.run_id # r => automation_runs[r].status \in RunTerminalStatuses
    /\ (result.kind = "returned" /\ ~result.success /\ result.automation_run_id # 0) =>
         LET run == automation_runs[result.automation_run_id] IN
         /\ run.status = "failed"
         /\ run.execution_log.error = "commit raised"

\* C8: trigger_automation on an automation that is inactive or does not exist
\* returns the not-triggered result (success = false), creates no
\* AutomationRun, executes no action and leaves the stored state unchanged.
C8_InactiveNotTriggered ==
    [][\A a \in AutomationIds \cup {2} : \A l \in LeadIds \cup {0} :
         (/\ TriggerAutomation_Begin(a, l)
          /\ ~(a \in DOMAIN automations /\ automations[a].is_active))
         => /\ result'.kind = "returned"
            /\ ~result'.success
            /\ result'.triggered_actions = <<>>
            /\ UNCHANGED <<automations, leads, automation_runs, tr>>]_vars

\* C8 witness: an inactive automation that has active actions was triggered;
\* the call returned not-triggered and nothing was stored or executed.
C8_Witness ==
    /\ result = NotTriggered
    /\ \A a \in AutomationIds :
         /\ ~automations[a].is_active
         /\ Len(ActiveActions(a)) > 0
    /\ automation_runs = <<>>
    /\ leads = [l \in LeadIds |-> NewLead]

(***************************************************************************)
(* Claims about segment evaluation (checked under SpecSeg)                 *)
(***************************************************************************)

ActiveRules(segment) ==
    {segment.rules[i] : i \in {j \in DOMAIN segment.rules : segment.rules[j].is_active}}

\* A lead satisfies a rule when the rule can be evaluated and its comparison
\* holds of the lead.
Satisfies(lead, rule) ==
    /\ BuildRuleCondition(rule) # NoCondition
    /\ EvalCondition(BuildRuleCondition(rule), lead)

\* The leads of the segment's organization among those the caller asked about.
Candidates(segment, lead_ids) ==
    { id \in DOMAIN leads :
        /\ leads[id].organization_id = segment.organization_id
        /\ lead_ids # {} => id \in lead_ids }

\* C9: for a segment with at least one active rule, evaluate_segment returns a
\* lead of the organization iff it satisfies every active rule (match_all_rules)
\* or at least one active rule (otherwise); inactive rules play no part.
C9_MatchAllOrAny ==
    evaluation.kind = "result" =>
        LET segment == segments[evaluation.segment_id] IN
        ActiveRules(segment) # {} =>
            evaluation.matching_leads =
                { id \in Candidates(segment, evaluation.lead_ids) :
                    IF segment.match_all_rules
                    THEN \A r \in ActiveRules(segment) : Satisfies(leads[id], r)
                    ELSE \E r \in ActiveRules(segment) : Satisfies(leads[id], r) }

\* C10: for a segment with no active rule, evaluate_segment gives the constant
\* match_all_rules for every lead: all leads of the organization when it is
\* true, no lead when it is false.
C10_EmptyRuleSetConstant ==
    evaluation.kind = "result" =>
        LET segment == segments[evaluation.segment_id] IN
        ActiveRules(segment) = {} =>
            evaluation.matching_leads =
                IF segment.match_all_rules
                THEN Candidates(segment, evaluation.lead_ids)
                ELSE {}

\* The active rules of a segment that cannot be evaluated: unknown field,
\* operator not legal for the field, value that does not parse.
UnevaluableRules(segment) ==
    {r \in ActiveRules(segment) : BuildRuleCondition(r) = NoCondition}

\* C11: an active rule that cannot be evaluated does not raise out of the
\* evaluation; in AND mode it contributes false, so a match-all segment that
\* contains one matches no lead; in OR mode it is omitted and the other active
\* rules alone decide.
C11_UnevaluableRuleFalseInAnd ==
    evaluation.kind = "result" =>
        LET segment == segments[evaluation.segment_id]
            others == ActiveRules(segment) \ UnevaluableRules(segment)
        IN UnevaluableRules(segment) # {} =>
               IF segment.match_all_rules
               THEN evaluation.matching_leads = {}
               ELSE others # {} =>
                      evaluation.matching_leads =
                          { id \in Candidates(segment, evaluation.lead_ids) :
                              \E r \in others : Satisfies(leads[id], r) }

(***************************************************************************)
(* Claims about the segment memberships (checked under SpecMem, and under  *)
(* SpecMemConc for concurrent recomputations)                              *)
(***************************************************************************)

\* The leads that have an active membership row in the segment.
ActiveLeadIds(rows, sid) == LeadIdsOf(rows, CurrentMembers(rows, sid))

\* No membership call is running.
MembershipCallsOver == \A p \in MemProcs : mc[p].pc = "idle"

\* C12: update_segment_memberships is idempotent: a call made right after a
\* call on the same segment that returned, with leads and rules unchanged,
\* returns 0 and leaves every membership row as it was.
C12_UpdateIdempotent ==
    (last_call.op = "update" /\ last_call.ok /\ last_call.repeat) =>
        (last_call.ret = 0 /\ ~last_call.changed)

\* C12 witness: a second recomputation of a dynamic segment has returned after
\* a first that had left active members.
C12_Witness ==
    /\ last_call.op = "update" /\ last_call.ok /\ last_call.repeat
    /\ last_call.segment_id \in DOMAIN segments
    /\ segments[last_call.segment_id].is_dynamic
    /\ memberships # memberships0
    /\ ActiveLeadIds(memberships, last_call.segment_id) # {}

\* C13: when update_segment_memberships has returned for a dynamic segment,
\* the leads with an active membership in the segment are exactly the leads
\* evaluate_segment returns for it, whatever the memberships were before.
C13_ActiveMembersAreMatches ==
    (/\ last_call.op = "update" /\ last_call.ok
     /\ MembershipCallsOver
     /\ last_call.segment_id \in DOMAIN segments
     /\ segments[last_call.segment_id].is_dynamic) =>
        ActiveLeadIds(memberships, last_call.segment_id) =
            MatchingLeadIds(segments[last_call.segment_id], {})

\* C13 witness: a recomputation has returned that reactivated or added one
\* lead and deactivated another.
C13_Witness ==
    /\ last_call.op = "update" /\ last_call.ok /\ last_call.changed
    /\ MembershipCallsOver
    /\ last_call.segment_id \in DOMAIN segments
    /\ segments[last_call.segment_id].is_dynamic
    /\ ActiveLeadIds(memberships, last_call.segment_id) \ last_call.active_before # {}
    /\ last_call.active_before \ ActiveLeadIds(memberships, last_call.segment_id) # {}

\* C14: update_segment_memberships on a static segment returns 0 and changes no
\* membership row, rules or not; the rows of a static segment change only in
\* add_leads_to_segment and remove_leads_from_segment calls.
C14_StaticSegmentUntouched ==
    /\ []((/\ last_call.op = "update" /\ last_call.ok
           /\ last_call.segment_id \in DOMAIN segments
           /\ ~segments[last_call.segment_id].is_dynamic) =>
              (last_call.ret = 0 /\ ~last_call.changed))
    /\ [][\A sid \in SegmentIds :
            (/\ ~segments[sid].is_dynamic
             /\ \/ Len(memberships') # Len(memberships)
                \/ \E i \in DOMAIN memberships :
                     memberships[i].segment_id = sid /\ memberships'[i] # memberships[i]) =>
                \E p \in MemProcs :
                    /\ mc[p].op \in {"add", "remove"}
                    /\ mc[p].pc \in {"add_commit", "remove_commit"}]_vars

\* C14 witness: a recomputation has returned for a static segment with a rule
\* whose matching leads differ from its active members.
C14_Witness ==
    /\ last_call.op = "update" /\ last_call.ok
    /\ MembershipCallsOver
    /\ last_call.segment_id \in DOMAIN segments
    /\ ~segments[last_call.segment_id].is_dynamic
    /\ segments[last_call.segment_id].rules # <<>>
    /\ ActiveLeadIds(memberships, last_call.segment_id) #
           MatchingLeadIds(segments[last_call.segment_id], {})

\* C15: add_leads_to_segment followed by remove_leads_from_segment with the
\* same ids returns each of those leads to the active or inactive state it had
\* before the add, and deletes no row.
C15_AddThenRemoveRestores ==
    [][LET c == mc["m1"] IN
       (/\ c.op = "remove" /\ c.pc = "remove_commit"
        /\ last_call.op = "add" /\ last_call.ok
        /\ last_call.segment_id = c.segment_id
        /\ last_call.lead_ids = c.lead_ids
        /\ last_call'.op = "remove" /\ last_call'.ok) =>
           /\ \A l \in c.lead_ids :
                (l \in ActiveLeadIds(memberships', c.segment_id)) <=>
                    (l \in last_call.active_before)
           /\ Len(memberships') >= Len(memberships)]_vars

\* C16: add_leads_to_segment and remove_leads_from_segment are idempotent:
\* adding leads that are all active members, or removing leads none of which
\* is an active member, leaves the rows unchanged; so does a call that repeats
\* the call before it.
C16_AddRemoveIdempotent ==
    (last_call.op \in {"add", "remove"} /\ last_call.ok) =>
        /\ (last_call.op = "add" /\ last_call.lead_ids \subseteq last_call.active_before)
               => ~last_call.changed
        /\ (last_call.op = "remove" /\ last_call.lead_ids \cap last_call.active_before = {})
               => ~last_call.changed
        /\ last_call.repeat => ~last_call.changed

\* C16 witness: an add of leads that were all active members already has
\* returned, right after the same add.
C16_Witness ==
    /\ last_call.op = "add" /\ last_call.ok /\ last_call.repeat
    /\ last_call.lead_ids # {}
    /\ last_call.lead_ids \subseteq last_call.active_before

\* C17: membership rows are never hard-deleted: in every step every row that
\* exists still exists afterwards, for the same lead and segment; a removal
\* only sets is_active to false.
C17_RowsNeverDeleted ==
    [][/\ Len(memberships') >= Len(memberships)
       /\ \A i \in DOMAIN memberships :
            /\ memberships'[i].lead_id = memberships[i].lead_id
            /\ memberships'[i].segment_id = memberships[i].segment_id]_vars

\* C17 witness: a remove_leads_from_segment call has deactivated rows, and a
\* row of each of its leads is still there.
C17_Witness ==
    /\ last_call.op = "remove" /\ last_call.ok /\ last_call.changed
    /\ \A l \in last_call.lead_ids :
         \E i \in DOMAIN memberships :
             /\ memberships[i].lead_id = l
             /\ memberships[i].segment_id = last_call.segment_id
             /\ ~memberships[i].is_active

\* C18: the membership diff is applied atomically: when a statement or commit
\* of update_segment_memberships raises, the caller sees the error and the
\* memberships are as before the call.
C18_DiffAppliedAtomically ==
    (last_call.op = "update" /\ ~last_call.ok) => ~last_call.changed

\* The table one update_segment_memberships call on its own leaves.
SerialUpdate(rows, sid) ==
    IF ~MembershipsUpdatable(sid) THEN rows
    ELSE LET matching_lead_ids == MatchingLeadIds(segments[sid], {})
             current_lead_ids == LeadIdsOf(rows, CurrentMembers(rows, sid))
             leads_to_add == LeadsToAdd(matching_lead_ids, current_lead_ids)
             leads_to_remove == LeadsToRemove(matching_lead_ids, current_lead_ids)
             existing == RowsOf(rows, sid, leads_to_add)
             added == InsertRows(
                          ReactivateRows(rows, SessionLoad(EmptySession, rows, existing),
                                         existing),
                          sid, NewLeadIds(IdList(leads_to_add), LeadIdsOf(rows, existing)))
             removed == RowsOf(added, sid, leads_to_remove)
         IN DeactivateRows(added, SessionLoad(EmptySession, added, removed), removed)

\* Two tables hold the same rows, whatever their ids.
SameRows(a, b) ==
    \A r \in {a[i] : i \in DOMAIN a} \cup {b[i] : i \in DOMAIN b} :
        Cardinality({i \in DOMAIN a : a[i] = r}) = Cardinality({i \in DOMAIN b : b[i] = r})

\* C19: concurrent update_segment_memberships calls on one segment compute no
\* conflicting diffs: when all of them have returned, the membership rows are
\* those the calls leave when run one after the other.
C19_ConcurrentUpdatesSerializable ==
    (/\ MembershipCallsOver
     /\ ~store_failed
     /\ last_call.op = "update") =>
        SameRows(memberships,
                 SerialUpdate(SerialUpdate(memberships0, last_call.segment_id),
                              last_call.segment_id))

(***************************************************************************)
(* Claims about the batch of the scheduled task queue (checked under       *)
(* SpecTasks)                                                              *)
(***************************************************************************)

\* C20: the batch of a process_due_tasks call is the first QueryLimit tasks of
\* those pending with scheduled_for <= now, sorted by priority descending and,
\* among equal priorities, by scheduled_for ascending; no task scheduled in the
\* future is in it.
C20_BatchOrderedByPriorityThenTime ==
    [][\A p \in Procs :
         (pc[p] = "idle" /\ pc'[p] = "run") =>
             LET q == due_tasks'[p]
                 due == {id \in TaskIds : tasks[id].scheduled_for <= now
                                            /\ tasks[id].status = "pending"}
             IN /\ LoadedIds(q) \subseteq due
                /\ Len(q) = Min(Cardinality(due), QueryLimit)
                /\ \A i, j \in DOMAIN q :
                     i < j =>
                        \/ q[i].row.priority > q[j].row.priority
                        \/ /\ q[i].row.priority = q[j].row.priority
                           /\ q[i].row.scheduled_for <= q[j].row.scheduled_for]_vars

\* C21: when the processing of a task fails, the call stores the task with the
\* retry_count it loaded plus one; with the new retry_count >= max_retries the
\* task is stored failed, otherwise retry_scheduled with scheduled_for at the
\* call's now plus the backoff; the call goes on with the next task of its
\* batch.
C21_FailureHandling ==
    [][\A p \in Procs :
         (/\ pc[p] = "run"
          /\ idx'[p] = idx[p] + 1
          /\ failures' # failures) =>
             LET obj == due_tasks[p][idx[p]]
                 rc == obj.row.retry_count + 1
                 stored == tasks'[obj.id]
             IN /\ failures'[obj.id] = failures[obj.id] + 1
                /\ stored.retry_count = rc
                /\ IF rc >= obj.row.max_retries
                   THEN /\ stored.status = "failed"
                        /\ stored.scheduled_for = tasks[obj.id].scheduled_for
                   ELSE /\ stored.status = "retry_scheduled"
                        /\ stored.scheduled_for = call_now[p] + RetryBackoff
                /\ \A id \in TaskIds \ {obj.id} : tasks'[id] = tasks[id]
                /\ pc'[p] = "run"
                /\ due_tasks'[p] = due_tasks[p]]_vars

\* C21 witness: a call has failed the first task of its batch, which is stored
\* retry_scheduled five minutes after the call's now, and has processed the
\* second task after it.
C21_Witness ==
    \E p \in Procs :
        /\ pc[p] = "run"
        /\ Len(due_tasks[p]) = 2
        /\ idx[p] = 3
        /\ failures[due_tasks[p][1].id] = 1
        /\ attempts[due_tasks[p][2].id] = 1
        /\ tasks[due_tasks[p][1].id].status = "retry_scheduled"
        /\ tasks[due_tasks[p][1].id].retry_count = 1
        /\ tasks[due_tasks[p][1].id].scheduled_for = call_now[p] + RetryBackoff

\* C30: a task created with retry_count = 0 keeps
\* 0 <= retry_count <= max_retries in every reachable state, whatever
\* max_retries >= 0 it was created with.
C30_RetryCountWithinBounds ==
    \A id \in TaskIds :
        /\ 0 <= tasks[id].retry_count
        /\ tasks[id].retry_count <= tasks[id].max_retries

\* C27: every scheduled task is created with status pending, whatever the
\* request carries.
C27_CreatedPending ==
    [][\A id \in TaskIds :
         (tasks[id] = NoTask /\ tasks'[id] # NoTask) =>
             tasks'[id].status = "pending"]_vars

\* C22: executing an active action whose action_type is not one of the eight
\* known types gives an outcome with success = false and an error text, raises
\* nothing (the call neither returns nor enters its except clause), changes no
\* lead, and leaves the loop at the following action.
C22_UnknownActionTypeFails ==
    [][(/\ tr.pc = "loop"
        /\ tr.i <= Len(automations[tr.automation_id].actions)
        /\ automations[tr.automation_id].actions[tr.i].is_active
        /\ automations[tr.automation_id].actions[tr.i].action_type \notin KnownActionTypes
        /\ tr' # tr) =>
           /\ tr'.pc = "loop"
           /\ tr'.i = tr.i + 1
           /\ Len(tr'.outcomes) = Len(tr.outcomes) + 1
           /\ tr'.outcomes[Len(tr'.outcomes)].success = FALSE
           /\ "error" \in DOMAIN tr'.outcomes[Len(tr'.outcomes)]
           /\ tr'.triggered_actions =
                  Append(tr.triggered_actions,
                         automations[tr.automation_id].actions[tr.i].action_type)
           /\ leads' = leads
           /\ result' = result
           /\ automation_runs' = automation_runs]_vars

\* An action of unknown type failed and the action after it was executed.
C22_Witness ==
    /\ tr.pc = "loop"
    /\ \E j \in DOMAIN tr.outcomes :
         /\ j < Len(tr.outcomes)
         /\ tr.triggered_actions[j] \notin KnownActionTypes
         /\ tr.outcomes[j] = ActionFailed("Unknown action type")
         /\ tr.outcomes[j + 1].success

\* The handler of this action finds its required configuration key missing.
RequiredKeyMissing(action) ==
    LET t == action.action_type
        config == action.configuration
    IN CASE t = "send_email" -> config.template_id = 0
         [] t = "update_lead_status" -> config.status = <<>>
         [] t = "update_lead_priority" -> config.priority = <<>>
         [] t = "assign_lead" -> config.agent_id = 0
         [] t \in {"add_tag", "remove_tag"} -> config.tag = <<>>
         [] OTHER -> FALSE

\* The outcome of an action whose handler found its key missing.
MissingKeyOutcome(o) ==
    /\ ~o.success
    /\ o.error \in {"No email template specified", "No status specified",
                    "No priority specified", "No agent specified", "No tag specified"}

\* C23: executing an active action whose required configuration key is missing
\* gives an outcome with success = false and changes no lead; the call stays in
\* its loop (it enters the except clause only from the completion commit, after
\* the last action), and a call that had such an outcome and leaves the loop
\* through the completion commit stores the Run as completed.
C23_MissingConfigFails ==
    [][/\ (/\ tr.pc = "loop"
           /\ tr.i <= Len(automations[tr.automation_id].actions)
           /\ automations[tr.automation_id].actions[tr.i].is_active
           /\ RequiredKeyMissing(automations[tr.automation_id].actions[tr.i])
           /\ tr' # tr) =>
              /\ tr'.pc = "loop"
              /\ tr'.i = tr.i + 1
              /\ Len(tr'.outcomes) = Len(tr.outcomes) + 1
              /\ tr'.outcomes[Len(tr'.outcomes)].success = FALSE
              /\ "error" \in DOMAIN tr'.outcomes[Len(tr'.outcomes)]
              /\ leads' = leads
              /\ result' = result
       /\ (tr.pc = "loop" /\ tr'.pc = "except") =>
              tr.i > Len(automations[tr.automation_id].actions)
       /\ (/\ tr.pc = "loop"
           /\ tr'.pc = "idle"
           /\ \E j \in DOMAIN tr.outcomes : MissingKeyOutcome(tr.outcomes[j])) =>
              /\ automation_runs'[tr.run_id].status = "completed"
              /\ result'.kind = "returned"
              /\ result'.success]_vars

\* A Run is completed although every action it executed found its key missing;
\* none of them touched a lead.
C23_Witness ==
    /\ result.kind = "returned"
    /\ result.success
    /\ automation_runs[result.automation_run_id].status = "completed"
    /\ Len(result.outcomes) = MaxActions
    /\ \A j \in DOMAIN result.outcomes : MissingKeyOutcome(result.outcomes[j])
    /\ leads = [l \in LeadIds |-> NewLead]

\* C24: a mutating action changes no lead other than the one it is invoked on,
\* and executing it again right after it succeeded on the same lead changes
\* nothing: the lead is as one execution left it.
C24_MutatingActionIdempotent ==
    [][/\ \A l \in DOMAIN leads : l # tr.lead_id => leads'[l] = leads[l]
       /\ (/\ tr.pc = "loop"
           /\ tr.i > 1
           /\ tr.i <= Len(automations[tr.automation_id].actions)
           /\ automations[tr.automation_id].actions[tr.i].is_active
           /\ automations[tr.automation_id].actions[tr.i].action_type
                  \in MutatingActionTypes
           /\ automations[tr.automation_id].actions[tr.i - 1] =
                  automations[tr.automation_id].actions[tr.i]
           /\ tr.outcomes[Len(tr.outcomes)].success) =>
              leads' = leads]_vars

\* The action types of an automation's active actions, in list order.
ActiveActionTypes(a) ==
    [j \in DOMAIN ActiveActions(a) |-> ActiveActions(a)[j].action_type]

\* C25: within one Run every step of the loop handles exactly the next action
\* of the list, which no handled action follows and no unhandled action
\* precedes in action_order; an inactive action is skipped with no outcome, no
\* entry in triggered_actions and no change of a lead; an active one appends its
\* type to triggered_actions; and the call returns as triggered_actions the
\* types of the active actions in that order.
C25_ActionsInOrder ==
    [][/\ (/\ tr.pc = "loop"
           /\ tr.i <= Len(automations[tr.automation_id].actions)
           /\ tr' # tr) =>
              LET acts == automations[tr.automation_id].actions IN
              /\ \A j \in 1..(tr.i - 1) : acts[j].action_order <= acts[tr.i].action_order
              /\ \A j \in (tr.i + 1)..Len(acts) :
                    acts[tr.i].action_order <= acts[j].action_order
              /\ tr'.pc = "loop"
              /\ tr'.i = tr.i + 1
              /\ IF acts[tr.i].is_active
                 THEN /\ tr'.triggered_actions =
                            Append(tr.triggered_actions, acts[tr.i].action_type)
                      /\ Len(tr'.outcomes) = Len(tr.outcomes) + 1
                 ELSE /\ tr'.triggered_actions = tr.triggered_actions
                      /\ tr'.outcomes = tr.outcomes
                      /\ leads' = leads
       /\ (/\ tr.pc \in {"loop", "except"}
           /\ tr'.pc = "idle"
           /\ result'.kind = "returned") =>
              result'.triggered_actions = ActiveActionTypes(tr.automation_id)]_vars

\* A completed Run of an automation with three actions of different
\* action_order, the middle one inactive: the two others were executed, the
\* one of lower action_order first.
C25_Witness ==
    /\ result.kind = "returned"
    /\ result.success
    /\ \E a \in AutomationIds :
         LET acts == automations[a].actions IN
         /\ Len(acts) = 3
         /\ acts[1].is_active /\ ~acts[2].is_active /\ acts[3].is_active
         /\ acts[1].action_order < acts[2].action_order
         /\ acts[2].action_order < acts[3].action_order
         /\ acts[1].action_type # acts[3].action_type
         /\ acts[2].action_type = "add_tag"
         /\ result.triggered_actions = <<acts[1].action_type, acts[3].action_type>>
         /\ Len(result.outcomes) = 2

C28_UpdateWritesOnlyDiff ==
    [][\A p \in MemProcs :
         (mc[p].op = "update" /\ mc[p].pc # "idle") =>
            LET c == mc[p]
                desired == MatchingLeadIds(segments[c.segment_id], {})
                current == LeadIdsOf(c.rows_before,
                                     CurrentMembers(c.rows_before, c.segment_id))
                kept == {i \in DOMAIN c.rows_before :
                           /\ c.rows_before[i].segment_id = c.segment_id
                           /\ c.rows_before[i].lead_id \in desired \cap current}
            IN /\ c.to_add = desired \ current
               /\ c.to_remove = current \ desired
               /\ c.pc \in {"add_select", "add_commit"} => c.lead_ids = desired \ current
               /\ c.pc \in {"remove_select", "remove_commit"} =>
                      c.lead_ids = current \ desired
               /\ c.loaded \cap kept = {}
               /\ \A i \in kept : /\ memberships[i] = c.rows_before[i]
                                   /\ memberships'[i] = c.rows_before[i]]_vars

\* An update that changed the table while one lead was an active member and
\* desired.
C28_Witness ==
    /\ last_call.op = "update" /\ last_call.ok /\ last_call.changed
    /\ MembershipCallsOver
    /\ last_call.segment_id \in DOMAIN segments
    /\ last_call.active_before
           \cap MatchingLeadIds(segments[last_call.segment_id], {}) # {}

\* C29: whatever add, remove and update calls one client makes one after the
\* other, with lead_ids lists that may repeat an id, the table holds at most
\* one row for each pair of a lead and a segment.
C29_OneRowPerLeadAndSegment ==
    \A i, j \in DOMAIN memberships :
        (/\ memberships[i].lead_id = memberships[j].lead_id
         /\ memberships[i].segment_id = memberships[j].segment_id) => i = j


=============================================================================
